---- MODULE Spec2Model ----
(***************************************************************************)
(* Model of SCENIC/pySCENIC_pipeline.py: argument parsing, path resolution *)
(* (DataLoader.get_analysis_paths), the command builders of GRNInference   *)
(* and the two workflows of WorkflowManager as chained by main().          *)
(*                                                                         *)
(* A Python string is a sequence of tokens (single characters where the    *)
(* case of a letter matters, longer literals elsewhere); a path is a       *)
(* sequence of path components, each a string.  Python's None, True and    *)
(* False are the one-token strings PyNone, PyTrue and PyFalse, whose token *)
(* occurs in no command-line string.                                       *)
(***************************************************************************)
EXTENDS Integers, Sequences, FiniteSets, TLC

Runs == {1, 2}

VARIABLES
    argv,       \* per run: [entry, mode, dataset_id, sample_id, cell_type, prune];
                \*   entry "cli" is main() with the raw option strings, entry
                \*   "api" is WorkflowManager constructed by a caller, "off": no run
    self,       \* per run: the WorkflowManager fields [cell_type, pruning]
    pc,         \* per run: position in main / the two workflows
    paths,      \* per run: data_loader.paths of the workflow in progress
    adata,      \* per run: the in-memory matrix [obs, hascol, louvain]
    figdir,     \* per run: the process-global sc.settings.figdir
    cfg,        \* per run: the three prepared command configurations
    calls,      \* per run, history: every get_analysis_paths call and its result
    entered,    \* per run, history: the stages entered, in order
    execd,      \* per run, history: the external commands executed, in order
    reads,      \* per run, history: the generated-artifact paths read, in order
    writes,     \* per run, history: the file paths written
    failed,     \* per run: the stage whose failure ended the run, or "none"
    dirs,       \* the directories that exist
    files,      \* the files that exist (outside the databases directory)
    dblist,     \* the directory listing of <base>/databases, in listing order
    h5ad,       \* the content of the persisted anndata files, by path
    meta        \* the annotation each cell has in the metadata file

runvars == <<argv, self, pc, paths, adata, figdir, cfg, calls, entered, execd,
             reads, writes, failed>>
fsvars == <<dirs, files, dblist, h5ad>>
vars == <<runvars, fsvars, meta>>

-----------------------------------------------------------------------------
(* Bounds *)

MaxCells == 2
MaxDbs == 2

-----------------------------------------------------------------------------
(* Python values and strings *)

PyNone == <<"<None>">>
PyTrue == <<"<True>">>
PyFalse == <<"<False>">>

\* bool(v) for the values that occur: None, False and "" are falsy
Truthy(v) == v # PyNone /\ v # PyFalse /\ v # <<>>

Range(s) == {s[i] : i \in DOMAIN s}
Front(s) == SubSeq(s, 1, Len(s) - 1)
Last(s) == s[Len(s)]

\* str.lower() on one character
LowerChar(c) ==
    CASE c = "T" -> "t" [] c = "U" -> "u" [] c = "M" -> "m" [] c = "O" -> "o"
      [] c = "R" -> "r" [] c = "N" -> "n" [] c = "E" -> "e" [] c = "F" -> "f"
      [] c = "A" -> "a" [] c = "L" -> "l" [] c = "S" -> "s" [] c = "X" -> "x"
      [] OTHER -> c

\* str.lower()
Lower(s) == [i \in DOMAIN s |-> LowerChar(s[i])]

S_Tumor == <<"T", "u", "m", "o", "r">>
S_NonTumor == <<"N", "o", "n", "-", "T", "u", "m", "o", "r">>
S_tumor == <<"t", "u", "m", "o", "r">>
S_nontumor == <<"n", "o", "n", "-", "t", "u", "m", "o", "r">>
S_none == <<"n", "o", "n", "e">>
S_true == <<"t", "r", "u", "e">>
S_false == <<"f", "a", "l", "s", "e">>

\* The command-line values tried for --cell_type and --prune
CellTypeArgs ==
    { PyNone, S_Tumor, S_tumor, S_NonTumor,
      <<"N", "O", "N", "-", "T", "U", "M", "O", "R">>,
      <<"N", "o", "n", "e">>, <<"x">> }

PruneArgs ==
    { PyNone, S_true, <<"F", "A", "L", "S", "E">>, <<"N", "o", "n", "e">>,
      <<"x">> }

\* The constructor arguments tried when WorkflowManager is used directly
CellTypeValues == { PyNone, S_Tumor, S_NonTumor, S_tumor, <<>> }
PruningValues == { PyNone, PyTrue, PyFalse }

-----------------------------------------------------------------------------
(* parse_arguments *)

\* mutant of PruneRaises: the final else branch is missing, so an unknown
\* value is left in place and treated as no value
PruneRaisesNever(p) == FALSE

\* the --prune branch raises ValueError
PruneRaises(p) ==
    /\ p # PyNone
    /\ Lower(p) \notin {S_true, S_false, S_none}

\* args.prune after the --prune branch
ParsePrune(p) ==
    IF p = PyNone THEN PyNone
    ELSE IF Lower(p) = S_true THEN PyTrue
    ELSE IF Lower(p) = S_false THEN PyFalse
    ELSE PyNone

\* the --cell_type branch raises ValueError
CellTypeRaises(c) ==
    /\ c # PyNone
    /\ Lower(c) # S_none
    /\ Lower(c) \notin {S_tumor, S_nontumor}

\* args.cell_type after the --cell_type branch
ParseCellType(c) ==
    IF c = PyNone THEN PyNone
    ELSE IF Lower(c) = S_none THEN PyNone
    ELSE Lower(c)

ParseRaises(a) == PruneRaises(a.prune) \/ CellTypeRaises(a.cell_type)

-----------------------------------------------------------------------------
(* The run's identifiers and os.path.join *)

BaseFolder == << <<"base">> >>
DatasetId == <<"ds">>
SampleId == <<"smp">>

\* os.path.join(p, c) for a relative single component c
Join(p, c) == Append(p, c)

\* os.makedirs(p, exist_ok=True): p and every ancestor of p
MakeDirs(ds, p) == ds \cup {SubSeq(p, 1, n) : n \in 1..Len(p)}

\* glob.glob(os.path.join(databases, '*.feather')): the matching entries of the
\* directory, in the order the directory lists them
RECURSIVE Glob(_, _)
Glob(dir, listing) ==
    IF listing = <<>> THEN <<>>
    ELSE LET rest == Glob(dir, Tail(listing))
             name == Head(listing)
         IN IF Len(name) > 0 /\ Last(name) = ".feather"
            THEN <<Join(dir, name)>> \o rest
            ELSE rest

N_TFs == <<"allTFs_hg38.txt">>
N_Motifs == <<"motifs-v10nr_clust-nr.hgnc-m0.001-o0.0.tbl">>

-----------------------------------------------------------------------------
(* DataLoader.get_analysis_paths *)

\* mutant of GapRaises: get_analysis_paths without the cell_type check
GapRaisesNever(cell_type) == FALSE

\* the cell_type check raises ValueError
GapRaises(cell_type) ==
    Truthy(cell_type) /\ cell_type \notin {S_Tumor, S_NonTumor}

\* the "base paths" dictionary
GapBase(base, dataset_id, sample_id) ==
    [ base |-> base,
      databases |-> Join(base, <<"databases">>),
      raw_data |-> Join(Join(base, dataset_id), <<"raw_data">>),
      output |-> Join(Join(base, dataset_id), sample_id),
      figures |-> Join(Join(Join(base, dataset_id), sample_id), <<"figures">>) ]

\* the directories that exist after the makedirs loop over the base paths
GapDirs(ds, base, dataset_id, sample_id) ==
    LET b == GapBase(base, dataset_id, sample_id)
    IN MakeDirs(MakeDirs(MakeDirs(MakeDirs(MakeDirs(ds, b.base), b.databases),
                                  b.raw_data), b.output), b.figures)

\* paths['output'] after the pruning adjustment
GapOutput(base, dataset_id, sample_id, pruning) ==
    LET out == GapBase(base, dataset_id, sample_id).output
    IN IF pruning # PyNone
       THEN Join(out, IF Truthy(pruning) THEN <<"pruned">> ELSE <<"unpruned">>)
       ELSE out

\* suffix = f"{cell_type}_" if cell_type else ""
GapSuffix(cell_type) ==
    IF Truthy(cell_type) THEN cell_type \o <<"_">> ELSE <<>>

\* mutant of AnalysisPaths: the transcription-factor list is looked up in the
\* databases directory instead of being named
AnalysisPathsGlobbedTfs(base, dataset_id, sample_id, cell_type, pruning, listing) ==
    LET b == GapBase(base, dataset_id, sample_id)
        out == GapOutput(base, dataset_id, sample_id, pruning)
        suffix == GapSuffix(cell_type)
    IN [ base |-> b.base,
         databases |-> b.databases,
         raw_data |-> b.raw_data,
         output |-> out,
         figures |-> b.figures,
         human_tfs |-> Join(b.databases,
                            IF listing = <<>> THEN N_TFs ELSE Head(listing)),
         ranking_dbs |-> Glob(b.databases, listing),
         motif_annotations |-> Join(b.databases, N_Motifs),
         raw_matrix |-> b.raw_data \o << <<"C3L-00004-T1_CPT0001540013_snRNA_ccRCC">>,
                                        <<"outs">>, <<"raw_feature_bc_matrix">> >>,
         metadata |-> Join(b.raw_data,
                           <<"GSE240822_GBM_ccRCC_RNA_metadata_CPTAC_samples.tsv.gz">>),
         anndata |-> Join(out, suffix \o <<"anndata.h5ad">>),
         filtered_loom |-> Join(out, suffix \o <<"filtered_scenic.loom">>),
         adjacencies |-> Join(out, suffix \o <<"adjacencies.csv">>),
         regulons |-> Join(out, suffix \o <<"reg.csv">>),
         pyscenic_output |-> Join(out, suffix \o <<"pyscenic_output.loom">>),
         aucell_mtx |-> Join(out, suffix \o <<"auc.csv">>) ]

\* the dictionary get_analysis_paths returns; listing is the directory listing
\* of the databases directory at the time of the call
AnalysisPaths(base, dataset_id, sample_id, cell_type, pruning, listing) ==
    LET b == GapBase(base, dataset_id, sample_id)
        out == GapOutput(base, dataset_id, sample_id, pruning)
        suffix == GapSuffix(cell_type)
    IN [ base |-> b.base,
         databases |-> b.databases,
         raw_data |-> b.raw_data,
         output |-> out,
         figures |-> b.figures,
         human_tfs |-> Join(b.databases, N_TFs),
         ranking_dbs |-> Glob(b.databases, listing),
         motif_annotations |-> Join(b.databases, N_Motifs),
         raw_matrix |-> b.raw_data \o << <<"C3L-00004-T1_CPT0001540013_snRNA_ccRCC">>,
                                        <<"outs">>, <<"raw_feature_bc_matrix">> >>,
         metadata |-> Join(b.raw_data,
                           <<"GSE240822_GBM_ccRCC_RNA_metadata_CPTAC_samples.tsv.gz">>),
         anndata |-> Join(out, suffix \o <<"anndata.h5ad">>),
         filtered_loom |-> Join(out, suffix \o <<"filtered_scenic.loom">>),
         adjacencies |-> Join(out, suffix \o <<"adjacencies.csv">>),
         regulons |-> Join(out, suffix \o <<"reg.csv">>),
         pyscenic_output |-> Join(out, suffix \o <<"pyscenic_output.loom">>),
         aucell_mtx |-> Join(out, suffix \o <<"auc.csv">>) ]

\* the keys of the returned dictionary whose value is a directory
DirValued(ps) == {ps.base, ps.databases, ps.raw_data, ps.output, ps.figures}

-----------------------------------------------------------------------------
(* GRNInference: the three command strings, as shell words *)

Lit(s) == [lit |-> s]
P(p) == [path |-> p]
Words(ps) == [i \in DOMAIN ps |-> P(ps[i])]

\* run_grn_inference
GrnConfig(ps) ==
    [ command |-> <<Lit("pyscenic"), Lit("grn"), P(ps.filtered_loom), P(ps.human_tfs),
                    Lit("-o"), P(ps.adjacencies), Lit("--num_workers"), Lit("20")>>,
      output_path |-> ps.adjacencies ]

\* mutant of CtxConfig: "if not pruning" in place of "if pruning is False"
CtxConfigFalsy(ps, pruning) ==
    LET base_command ==
            <<Lit("pyscenic"), Lit("ctx"), P(ps.adjacencies)>> \o Words(ps.ranking_dbs)
            \o <<Lit("--annotations_fname"), P(ps.motif_annotations),
                 Lit("--expression_mtx_fname"), P(ps.filtered_loom),
                 Lit("--output"), P(ps.regulons),
                 Lit("--mask_dropouts"), Lit("--num_workers"), Lit("20")>>
    IN [ command |-> IF ~Truthy(pruning)
                     THEN base_command \o <<Lit("--no_pruning")>>
                     ELSE base_command,
         output_path |-> ps.regulons ]

\* run_ctx_inference(pruning)
CtxConfig(ps, pruning) ==
    LET base_command ==
            <<Lit("pyscenic"), Lit("ctx"), P(ps.adjacencies)>> \o Words(ps.ranking_dbs)
            \o <<Lit("--annotations_fname"), P(ps.motif_annotations),
                 Lit("--expression_mtx_fname"), P(ps.filtered_loom),
                 Lit("--output"), P(ps.regulons),
                 Lit("--mask_dropouts"), Lit("--num_workers"), Lit("20")>>
    IN [ command |-> IF pruning = PyFalse
                     THEN base_command \o <<Lit("--no_pruning")>>
                     ELSE base_command,
         output_path |-> ps.regulons ]

\* mutant of AucellConfig: the scoring command is given the adjacencies where
\* the regulons belong
AucellConfigOnAdjacencies(ps) ==
    [ command |-> <<Lit("pyscenic"), Lit("aucell"), P(ps.filtered_loom),
                    P(ps.adjacencies), Lit("--output"), P(ps.pyscenic_output),
                    Lit("--num_workers"), Lit("20")>>,
      output_path |-> ps.pyscenic_output ]

\* run_aucell
AucellConfig(ps) ==
    [ command |-> <<Lit("pyscenic"), Lit("aucell"), P(ps.filtered_loom), P(ps.regulons),
                    Lit("--output"), P(ps.pyscenic_output), Lit("--num_workers"),
                    Lit("20")>>,
      output_path |-> ps.pyscenic_output ]

-----------------------------------------------------------------------------
(* The subsetting of run_pyscenic_workflow *)

AnnotationValues == {"Tumor", "Other", "NaN"}

\* mutant of NonTumorMask: 'Non-Tumor' as a second literal category
NonTumorMaskLiteral(obs) == {i \in DOMAIN obs : obs[i] = "Other"}

\* the boolean row masks of subset_conditions, as sets of row indices
TumorMask(obs) == {i \in DOMAIN obs : obs[i] = "Tumor"}
NonTumorMask(obs) == {i \in DOMAIN obs : obs[i] # "Tumor"}

\* the rows kept by the subsetting block for a cell type
SelectRows(obs, cell_type) ==
    IF Truthy(cell_type)
    THEN IF cell_type = S_Tumor THEN TumorMask(obs)
         ELSE IF cell_type = S_NonTumor THEN NonTumorMask(obs)
         ELSE DOMAIN obs
    ELSE DOMAIN obs

\* adata[mask]: the rows of the mask, in their order
RECURSIVE Take(_, _)
Take(obs, rows) ==
    IF obs = <<>> THEN <<>>
    ELSE LET n == Len(obs)
             front == Take(SubSeq(obs, 1, n - 1), rows)
         IN IF n \in rows THEN Append(front, obs[n]) ELSE front

-----------------------------------------------------------------------------
(* The filesystem *)

Databases(base) == Join(base, <<"databases">>)

\* os.path.exists(p)
Exists(p) ==
    \/ p \in files
    \/ p \in dirs
    \/ /\ Len(p) > 1
       /\ Front(p) = Databases(BaseFolder)
       /\ Last(p) \in Range(dblist)

\* the i-th ranking database an operator may install
Feather(i) == <<"hg38_rank", ToString(i), ".feather">>

\* str(v) inside an f-string
PyStr(v) == IF v = PyNone THEN <<"N", "o", "n", "e">> ELSE v

-----------------------------------------------------------------------------
(* Initial states *)

Upd(f, r, v) == [f EXCEPT ![r] = v]

NoPaths == AnalysisPaths(<< >>, <<>>, <<>>, PyNone, PyNone, <<>>)
NoConfig == [grn |-> GrnConfig(NoPaths), ctx |-> CtxConfig(NoPaths, PyNone),
             aucell |-> AucellConfig(NoPaths)]
NoData == [obs |-> <<>>, hascol |-> FALSE, louvain |-> FALSE]
DefaultFigdir == << <<".">>, <<"figures">> >>

\* main() run from the command line with raw option strings
CliArgs ==
    { [entry |-> "cli", mode |-> "full", dataset_id |-> DatasetId,
       sample_id |-> SampleId, cell_type |-> c, prune |-> p] :
      c \in CellTypeArgs, p \in PruneArgs }

\* WorkflowManager constructed by a caller, which then runs both workflows as
\* main does ("full") or re-enters at run_pyscenic_workflow ("scenic")
ApiArgs ==
    { [entry |-> "api", mode |-> m, dataset_id |-> DatasetId,
       sample_id |-> SampleId, cell_type |-> c, prune |-> p] :
      m \in {"full", "scenic"}, c \in CellTypeValues, p \in PruningValues }

OffArgs == [entry |-> "off", mode |-> "full", dataset_id |-> DatasetId,
            sample_id |-> SampleId, cell_type |-> PyNone, prune |-> PyNone]

Annotations == [1..MaxCells -> AnnotationValues]

\* every anndata path a run of this dataset and sample can resolve
AnndataPaths(dataset_id, sample_id) ==
    { AnalysisPaths(BaseFolder, dataset_id, sample_id, c, p, <<>>).anndata :
      c \in {PyNone, S_Tumor, S_NonTumor}, p \in PruningValues }

\* the directories and files an earlier use of the pipeline has left behind
UsedDirs(dataset_id, sample_id) ==
    UNION { MakeDirs(GapDirs({}, BaseFolder, dataset_id, sample_id),
                     GapOutput(BaseFolder, dataset_id, sample_id, p)) :
            p \in PruningValues }

\* the runs before their first step; as gives each run's arguments
InitRuns(as) ==
    /\ argv = as
    /\ self = [x \in Runs |-> [cell_type |-> PyNone, pruning |-> PyNone]]
    /\ pc = [x \in Runs |-> IF as[x].entry = "off" THEN "off" ELSE "start"]
    /\ paths = [x \in Runs |-> NoPaths]
    /\ adata = [x \in Runs |-> NoData]
    /\ figdir = [x \in Runs |-> DefaultFigdir]
    /\ cfg = [x \in Runs |-> NoConfig]
    /\ calls = [x \in Runs |-> <<>>]
    /\ entered = [x \in Runs |-> <<>>]
    /\ execd = [x \in Runs |-> <<>>]
    /\ reads = [x \in Runs |-> <<>>]
    /\ writes = [x \in Runs |-> <<>>]
    /\ failed = [x \in Runs |-> "none"]

InitFs ==
    /\ meta \in Annotations
    /\ dblist \in {<<>>, <<N_TFs, Feather(1), N_Motifs>>}
    /\ \E used \in BOOLEAN, hascol \in BOOLEAN :
         IF used
         THEN /\ dirs = UsedDirs(DatasetId, SampleId)
              /\ files = AnndataPaths(DatasetId, SampleId)
              /\ h5ad = [p \in AnndataPaths(DatasetId, SampleId) |->
                           [obs |-> meta, hascol |-> hascol, louvain |-> TRUE]]
         ELSE /\ hascol
              /\ dirs = IF dblist = <<>> THEN {}
                        ELSE MakeDirs({}, Databases(BaseFolder))
              /\ files = {}
              /\ h5ad = << >>

Init ==
    /\ \E a \in CliArgs \cup ApiArgs :
         InitRuns([x \in Runs |-> IF x = 1 THEN a ELSE OffArgs])
    /\ InitFs

-----------------------------------------------------------------------------
(* Steps shared by the stages *)

\* an exception leaves the workflow and main: the run ends at this stage
Raise(r, stage) ==
    /\ pc' = Upd(pc, r, "failed")
    /\ failed' = Upd(failed, r, stage)

Goto(r, next) ==
    /\ pc' = Upd(pc, r, next)
    /\ UNCHANGED failed

Enter(r, stage) == entered' = Upd(entered, r, Append(entered[r], stage))

\* the body of a stage raises in a library call, before it changes anything
Crash(r, stage) ==
    /\ Raise(r, stage)
    /\ UNCHANGED <<argv, self, paths, adata, figdir, cfg, calls, execd, reads,
                   writes, fsvars, meta>>

\* DataLoader(...): __init__ calls get_analysis_paths
GapCall(r, stage, next, cell_type, pruning) ==
    IF GapRaises(cell_type)
    THEN /\ Raise(r, stage)
         /\ UNCHANGED <<paths, calls, dirs>>
    ELSE LET result == AnalysisPaths(BaseFolder, argv[r].dataset_id,
                                     argv[r].sample_id, cell_type, pruning, dblist)
         IN /\ Goto(r, next)
            /\ dirs' = GapDirs(dirs, BaseFolder, argv[r].dataset_id, argv[r].sample_id)
            /\ paths' = Upd(paths, r, result)
            /\ calls' = Upd(calls, r, Append(calls[r],
                            [cell_type |-> cell_type, pruning |-> pruning,
                             listing |-> dblist, result |-> result]))

Wrote(r, stage, ps) ==
    writes' = Upd(writes, r, writes[r] \o [i \in DOMAIN ps |->
                                             [stage |-> stage, path |-> ps[i]]])

Read(r, stage, ps) ==
    reads' = Upd(reads, r, reads[r] \o [i \in DOMAIN ps |->
                 [stage |-> stage, path |-> ps[i],
                  own |-> \E j \in DOMAIN writes[r] : writes[r][j].path = ps[i]]])

\* adata.write(p): h5py cannot create a file in a missing directory; some
\* anndata versions create the directory first, others do not
WriteH5ad(r, stage, next, p, content) ==
    \/ /\ Front(p) \notin dirs
       /\ Raise(r, stage)
       /\ UNCHANGED <<dirs, files, h5ad, writes>>
    \/ /\ Goto(r, next)
       /\ dirs' = MakeDirs(dirs, Front(p))
       /\ files' = files \cup {p}
       /\ h5ad' = (p :> content) @@ h5ad
       /\ Wrote(r, stage, <<p>>)

-----------------------------------------------------------------------------
(* main: parse_arguments and the construction of the WorkflowManager *)

\* main up to WorkflowManager(...): parse_arguments raises, or the parsed
\* values become the manager's fields
MainParse(r) ==
    /\ pc[r] = "start"
    /\ argv[r].entry = "cli"
    /\ IF ParseRaises(argv[r])
       THEN /\ Raise(r, "parse_arguments")
            /\ UNCHANGED self
       ELSE /\ Goto(r, "pre_loader")
            /\ self' = Upd(self, r, [cell_type |-> ParseCellType(argv[r].cell_type),
                                     pruning |-> ParsePrune(argv[r].prune)])
    /\ UNCHANGED <<argv, paths, adata, figdir, cfg, calls, entered, execd, reads,
                   writes, fsvars, meta>>

\* WorkflowManager.__init__ called by a library user
Construct(r) ==
    /\ pc[r] = "start"
    /\ argv[r].entry = "api"
    /\ Goto(r, IF argv[r].mode = "full" THEN "pre_loader" ELSE "scenic_loader")
    /\ self' = Upd(self, r, [cell_type |-> argv[r].cell_type,
                             pruning |-> argv[r].prune])
    /\ UNCHANGED <<argv, paths, adata, figdir, cfg, calls, entered, execd, reads,
                   writes, fsvars, meta>>

-----------------------------------------------------------------------------
(* WorkflowManager.preprocessing_workflow *)

\* data_loader = DataLoader(...)
PreDataLoader(r) ==
    /\ pc[r] = "pre_loader"
    /\ Enter(r, "pre_loader")
    /\ GapCall(r, "pre_loader", "pre_read", self[r].cell_type, self[r].pruning)
    /\ UNCHANGED <<argv, self, adata, figdir, cfg, execd, reads, writes, files,
                   dblist, h5ad, meta>>

\* data_loader.read_expression_data()
PreReadExpression(r) ==
    /\ pc[r] = "pre_read"
    /\ Enter(r, "read_expression")
    /\ \/ Crash(r, "read_expression")
       \/ /\ Goto(r, "pre_filter")
          /\ adata' = Upd(adata, r, [obs |-> [i \in DOMAIN meta |-> "NaN"],
                                     hascol |-> FALSE, louvain |-> FALSE])
          /\ UNCHANGED <<argv, self, paths, figdir, cfg, calls, execd, reads,
                         writes, fsvars, meta>>

\* data_preprocessor.filter_data(), which saves the filtered matrix
PreFilterData(r) ==
    /\ pc[r] = "pre_filter"
    /\ Enter(r, "filter")
    /\ \/ Crash(r, "filter")
       \/ /\ WriteH5ad(r, "filter", "pre_meta", paths[r].anndata, adata[r])
          /\ UNCHANGED <<argv, self, paths, adata, figdir, cfg, calls, execd,
                         reads, dblist, meta>>

\* mutant of PreAddMetadata: the preprocess_data() call is missing, clustering
\* follows the annotation directly
PreAddMetadataThenCluster(r) ==
    /\ pc[r] = "pre_meta"
    /\ Enter(r, "annotate")
    /\ Goto(r, "pre_cluster")
    /\ adata' = Upd(adata, r, [obs |-> meta, hascol |-> TRUE, louvain |-> FALSE])
    /\ UNCHANGED <<argv, self, paths, figdir, cfg, calls, execd, reads, writes,
                   fsvars, meta>>

\* data_preprocessor.add_metadata(...): joins the harmonized annotation
PreAddMetadata(r) ==
    /\ pc[r] = "pre_meta"
    /\ Enter(r, "annotate")
    /\ \/ Crash(r, "annotate")
       \/ /\ Goto(r, "pre_norm")
          /\ adata' = Upd(adata, r, [obs |-> meta, hascol |-> TRUE,
                                     louvain |-> FALSE])
          /\ UNCHANGED <<argv, self, paths, figdir, cfg, calls, execd, reads,
                         writes, fsvars, meta>>

\* data_preprocessor.preprocess_data(): normalizes, scales, saves
PrePreprocessData(r) ==
    /\ pc[r] = "pre_norm"
    /\ Enter(r, "normalize")
    /\ \/ Crash(r, "normalize")
       \/ /\ WriteH5ad(r, "normalize", "pre_cluster", paths[r].anndata, adata[r])
          /\ UNCHANGED <<argv, self, paths, adata, figdir, cfg, calls, execd,
                         reads, dblist, meta>>

\* the two files sc.pl.umap(..., save=...) writes in cluster_and_umap
ClusterFigures(fd) ==
    << Join(fd, <<"umap", "_louvain_expr.pdf">>),
       Join(fd, <<"umap", "_expr_cell_type.pdf">>) >>

\* cluster_visualizer.cluster_and_umap(resolution=0.4): clusters, points
\* scanpy's figure directory at paths['figures'], plots, saves
PreClusterAndUmap(r) ==
    /\ pc[r] = "pre_cluster"
    /\ Enter(r, "cluster")
    /\ \/ Crash(r, "cluster")
       \/ LET fd == paths[r].figures
              figs == ClusterFigures(fd)
              p == paths[r].anndata
              content == [adata[r] EXCEPT !.louvain = TRUE]
          IN /\ figdir' = Upd(figdir, r, fd)
             /\ adata' = Upd(adata, r, content)
             /\ \/ /\ Front(p) \notin dirs
                   /\ Raise(r, "cluster")
                   /\ dirs' = MakeDirs(dirs, fd)
                   /\ files' = files \cup Range(figs)
                   /\ Wrote(r, "cluster", figs)
                   /\ UNCHANGED h5ad
                \/ /\ Goto(r, "scenic_loader")
                   /\ dirs' = MakeDirs(MakeDirs(dirs, fd), Front(p))
                   /\ files' = files \cup Range(figs) \cup {p}
                   /\ h5ad' = (p :> content) @@ h5ad
                   /\ Wrote(r, "cluster", Append(figs, p))
             /\ UNCHANGED <<argv, self, paths, cfg, calls, execd, reads, dblist,
                            meta>>

-----------------------------------------------------------------------------
(* WorkflowManager.run_pyscenic_workflow *)

\* data_loader = DataLoader(...)
ScenicDataLoader(r) ==
    /\ pc[r] = "scenic_loader"
    /\ Enter(r, "scenic_loader")
    /\ GapCall(r, "scenic_loader", "scenic_read", self[r].cell_type, self[r].pruning)
    /\ UNCHANGED <<argv, self, adata, figdir, cfg, execd, reads, writes, files,
                   dblist, h5ad, meta>>

\* adata = sc.read_h5ad(data_loader.paths['anndata'])
ScenicReadH5ad(r) ==
    /\ pc[r] = "scenic_read"
    /\ Enter(r, "read_h5ad")
    /\ LET p == paths[r].anndata
       IN IF p \notin files
          THEN /\ Raise(r, "read_h5ad")
               /\ UNCHANGED <<adata, reads>>
          ELSE /\ Goto(r, "scenic_subset")
               /\ adata' = Upd(adata, r, h5ad[p])
               /\ Read(r, "read_h5ad", <<p>>)
    /\ UNCHANGED <<argv, self, paths, figdir, cfg, calls, execd, writes, fsvars,
                   meta>>

\* mutant of ScenicSubset: the masks are built only if the column is there,
\* otherwise the matrix is left as it is
ScenicSubsetLenient(r) ==
    /\ pc[r] = "scenic_subset"
    /\ Enter(r, "subset")
    /\ Goto(r, "scenic_paths")
    /\ adata' = Upd(adata, r,
           IF adata[r].hascol
           THEN [adata[r] EXCEPT !.obs = Take(@, SelectRows(@, self[r].cell_type))]
           ELSE adata[r])
    /\ UNCHANGED <<argv, self, paths, figdir, cfg, calls, execd, reads, writes,
                   fsvars, meta>>

\* the subsetting block: building subset_conditions reads the annotation
\* column (KeyError when absent) for any truthy cell type
ScenicSubset(r) ==
    /\ pc[r] = "scenic_subset"
    /\ Enter(r, "subset")
    /\ IF Truthy(self[r].cell_type) /\ ~adata[r].hascol
       THEN /\ Raise(r, "subset")
            /\ UNCHANGED adata
       ELSE /\ Goto(r, "scenic_paths")
            /\ adata' = Upd(adata, r,
                   [adata[r] EXCEPT !.obs = Take(@, SelectRows(@, self[r].cell_type))])
    /\ UNCHANGED <<argv, self, paths, figdir, cfg, calls, execd, reads, writes,
                   fsvars, meta>>

\* data_loader.paths = data_loader.get_analysis_paths(base_folder, dataset_id,
\*                                                    sample_id, cell_type)
ScenicUpdatePaths(r) ==
    /\ pc[r] = "scenic_paths"
    /\ Enter(r, "update_paths")
    /\ GapCall(r, "update_paths", "scenic_loom", self[r].cell_type, PyNone)
    /\ UNCHANGED <<argv, self, adata, figdir, cfg, execd, reads, writes, files,
                   dblist, h5ad, meta>>

\* Step 1: create_loom_file(adata), then the three command configurations
ScenicCreateLoom(r) ==
    /\ pc[r] = "scenic_loom"
    /\ Enter(r, "export")
    /\ \/ Crash(r, "export")
       \/ LET p == paths[r].filtered_loom
          IN /\ IF ~adata[r].louvain \/ ~adata[r].hascol \/ Front(p) \notin dirs
                THEN /\ Raise(r, "export")
                     /\ UNCHANGED <<files, writes, cfg>>
                ELSE /\ Goto(r, "grn_run")
                     /\ files' = files \cup {p}
                     /\ Wrote(r, "export", <<p>>)
                     /\ cfg' = Upd(cfg, r,
                                   [grn |-> GrnConfig(paths[r]),
                                    ctx |-> CtxConfig(paths[r], self[r].pruning),
                                    aucell |-> AucellConfig(paths[r])])
             /\ UNCHANGED <<argv, self, paths, adata, figdir, calls, execd, reads,
                            dirs, dblist, h5ad, meta>>

\* the position of the output flag of a pyscenic command, and the paths the
\* command names as its output and as its inputs
OutputFlagAt(cmd) ==
    CHOOSE i \in DOMAIN cmd : cmd[i] \in {Lit("-o"), Lit("--output")}
CmdOutput(cmd) == cmd[OutputFlagAt(cmd) + 1].path
CmdInputs(cmd) ==
    { cmd[i].path : i \in { j \in DOMAIN cmd :
                            "path" \in DOMAIN cmd[j] /\ j # OutputFlagAt(cmd) + 1 } }

\* mutant of SubprocessRaises: subprocess.run without check=True
SubprocessNeverRaises(rc) == FALSE

\* subprocess.run(command, shell=True, check=True) raises CalledProcessError
SubprocessRaises(rc) == rc # 0

\* subprocess.run of a prepared command: the tool exits with some status and
\* has or has not written the output file its command line names
RunTool(r, stage, next, cmd) ==
    \E rc \in {0, 1}, produced \in BOOLEAN :
        LET out == CmdOutput(cmd)
            wrote == produced /\ Front(out) \in dirs
        IN /\ execd' = Upd(execd, r, Append(execd[r],
                           [tool |-> stage, command |-> cmd, rc |-> rc,
                            missing |-> {p \in CmdInputs(cmd) : ~Exists(p)}]))
           /\ files' = IF wrote THEN files \cup {out} ELSE files
           /\ IF wrote THEN Wrote(r, stage, <<out>>) ELSE UNCHANGED writes
           /\ IF SubprocessRaises(rc) THEN Raise(r, stage) ELSE Goto(r, next)

\* mutant of ReadOutput: the output is loaded only if it is there
ReadOutputIfPresent(r, stage, next, p) ==
    /\ Goto(r, next)
    /\ IF p \in files THEN Read(r, stage, <<p>>) ELSE UNCHANGED reads

\* the orchestrator reads a stage's output: FileNotFoundError when absent
ReadOutput(r, stage, next, p) ==
    IF p \notin files
    THEN /\ Raise(r, stage)
         /\ UNCHANGED reads
    ELSE /\ Goto(r, next)
         /\ Read(r, stage, <<p>>)

\* Step 2: subprocess.run of the GRN command
RunGrn(r) ==
    /\ pc[r] = "grn_run"
    /\ Enter(r, "grn")
    /\ RunTool(r, "grn", "grn_read", cfg[r].grn.command)
    /\ UNCHANGED <<argv, self, paths, adata, figdir, cfg, calls, reads, dirs,
                   dblist, h5ad, meta>>

\* Step 2: adjacencies = pd.read_csv(grn_inference_config['output_path'])
ReadAdjacencies(r) ==
    /\ pc[r] = "grn_read"
    /\ ReadOutput(r, "grn", "ctx_run", cfg[r].grn.output_path)
    /\ UNCHANGED <<argv, self, paths, adata, figdir, cfg, calls, entered, execd,
                   writes, fsvars, meta>>

\* Step 3: subprocess.run of the context-inference command
RunCtx(r) ==
    /\ pc[r] = "ctx_run"
    /\ Enter(r, "ctx")
    /\ RunTool(r, "ctx", "ctx_read", cfg[r].ctx.command)
    /\ UNCHANGED <<argv, self, paths, adata, figdir, cfg, calls, reads, dirs,
                   dblist, h5ad, meta>>

\* Step 3: regulons = pd.read_csv(ctx_inference_config['output_path'], header=1)
ReadRegulons(r) ==
    /\ pc[r] = "ctx_read"
    /\ ReadOutput(r, "ctx", "gene_plot", cfg[r].ctx.output_path)
    /\ UNCHANGED <<argv, self, paths, adata, figdir, cfg, calls, entered, execd,
                   writes, fsvars, meta>>

\* f"{cell_type + '_' if cell_type else ''}gene_distribution.pdf"
GeneDistributionFile(ps, cell_type) ==
    Join(ps.figures, (IF Truthy(cell_type) THEN cell_type \o <<"_">> ELSE <<>>)
                     \o <<"gene_distribution.pdf">>)

\* writing one figure with plt.savefig, which needs the directory to exist
SaveFigure(r, stage, next, p) ==
    IF Front(p) \notin dirs
    THEN /\ Raise(r, stage)
         /\ UNCHANGED <<files, writes>>
    ELSE /\ Goto(r, next)
         /\ files' = files \cup {p}
         /\ Wrote(r, stage, <<p>>)

\* Step 4: result_visualizer.plot_gene_distribution(gene_counts, cell_type)
PlotGeneDistribution(r) ==
    /\ pc[r] = "gene_plot"
    /\ Enter(r, "gene_distribution")
    /\ \/ Crash(r, "gene_distribution")
       \/ /\ SaveFigure(r, "gene_distribution", "aucell_run",
                        GeneDistributionFile(paths[r], self[r].cell_type))
          /\ UNCHANGED <<argv, self, paths, adata, figdir, cfg, calls, execd,
                         reads, dirs, dblist, h5ad, meta>>

\* Step 5: subprocess.run of the AUCell command
RunAucell(r) ==
    /\ pc[r] = "aucell_run"
    /\ Enter(r, "aucell")
    /\ RunTool(r, "aucell", "aucell_read", cfg[r].aucell.command)
    /\ UNCHANGED <<argv, self, paths, adata, figdir, cfg, calls, reads, dirs,
                   dblist, h5ad, meta>>

\* Step 5: lp.connect(aucell_config['output_path'], ...)
ReadAucell(r) ==
    /\ pc[r] = "aucell_read"
    /\ ReadOutput(r, "aucell", "dimred", cfg[r].aucell.output_path)
    /\ UNCHANGED <<argv, self, paths, adata, figdir, cfg, calls, entered, execd,
                   writes, fsvars, meta>>

\* sc.pl.umap(..., save=f'_{cell_type}_umap.pdf') writes into scanpy's figdir
DimredFigure(fd, cell_type) ==
    Join(fd, <<"umap", "_">> \o PyStr(cell_type) \o <<"_umap.pdf">>)

\* Step 6: result_visualizer.aucell_dimensionality_reduction(...)
DimReduction(r) ==
    /\ pc[r] = "dimred"
    /\ Enter(r, "dimred")
    /\ \/ Crash(r, "dimred")
       \/ LET p == DimredFigure(figdir[r], self[r].cell_type)
          IN /\ Goto(r, "visualize")
             /\ dirs' = MakeDirs(MakeDirs(dirs, paths[r].figures), figdir[r])
             /\ files' = files \cup {p}
             /\ Wrote(r, "dimred", <<p>>)
             /\ UNCHANGED <<argv, self, paths, adata, figdir, cfg, calls, execd,
                            reads, dblist, h5ad, meta>>

\* Step 7: plot_top_regulons() for a cell type, create_regulon_heatmap() else
Visualize(r) ==
    /\ pc[r] = "visualize"
    /\ Enter(r, "visualize")
    /\ \/ Crash(r, "visualize")
       \/ LET ps == paths[r]
              ins == IF Truthy(self[r].cell_type)
                     THEN <<ps.pyscenic_output>>
                     ELSE <<ps.pyscenic_output, ps.anndata>>
              fig == Join(ps.figures,
                          IF Truthy(self[r].cell_type)
                          THEN <<"tumor_regulon_heatmap.pdf">>
                          ELSE <<"regulon_heatmap.pdf">>)
          IN /\ IF \E i \in DOMAIN ins : ins[i] \notin files
                THEN /\ Raise(r, "visualize")
                     /\ Read(r, "visualize",
                             SelectSeq(ins, LAMBDA p : p \in files))
                     /\ UNCHANGED <<files, writes>>
                ELSE /\ Read(r, "visualize", ins)
                     /\ SaveFigure(r, "visualize", "done", fig)
             /\ UNCHANGED <<argv, self, paths, adata, figdir, cfg, calls, execd,
                            dirs, dblist, h5ad, meta>>

-----------------------------------------------------------------------------
(* The environment and the specifications *)

\* an operator installs one more ranking database while a run is in progress
EnvAddDatabase ==
    /\ \E r \in Runs : pc[r] \notin {"off", "start", "done", "failed"}
    /\ \E i \in 1..MaxDbs :
         /\ Feather(i) \notin Range(dblist)
         /\ \A j \in 1..(i - 1) : Feather(j) \in Range(dblist)
         /\ dblist' = Append(dblist, Feather(i))
    /\ dirs' = MakeDirs(dirs, Databases(BaseFolder))
    /\ UNCHANGED <<runvars, files, h5ad, meta>>

RunStep(r) ==
    \/ MainParse(r)
    \/ Construct(r)
    \/ PreDataLoader(r)
    \/ PreReadExpression(r)
    \/ PreFilterData(r)
    \/ PreAddMetadata(r)
    \/ PrePreprocessData(r)
    \/ PreClusterAndUmap(r)
    \/ ScenicDataLoader(r)
    \/ ScenicReadH5ad(r)
    \/ ScenicSubset(r)
    \/ ScenicUpdatePaths(r)
    \/ ScenicCreateLoom(r)
    \/ RunGrn(r)
    \/ ReadAdjacencies(r)
    \/ RunCtx(r)
    \/ ReadRegulons(r)
    \/ PlotGeneDistribution(r)
    \/ RunAucell(r)
    \/ ReadAucell(r)
    \/ DimReduction(r)
    \/ Visualize(r)

Next == \E r \in Runs : RunStep(r)

\* one run, in a filesystem nothing else touches
Spec == Init /\ [][Next]_vars

\* one run, while an operator may install ranking databases
NextEnv == Next \/ EnvAddDatabase
InitEnv == Init /\ meta = [i \in 1..MaxCells |-> "Tumor"]
SpecEnv == InitEnv /\ [][NextEnv]_vars

\* the context a run's arguments denote
Context(a) ==
    [ dataset_id |-> a.dataset_id,
      sample_id |-> a.sample_id,
      cell_type |-> IF a.entry = "cli" THEN ParseCellType(a.cell_type)
                    ELSE a.cell_type,
      pruning |-> IF a.entry = "cli" THEN ParsePrune(a.prune) ELSE a.prune ]

\* two runs over one base folder with different contexts: started from the
\* command line, or by a caller for a cell type, another sample or dataset
PairArgs ==
    { [entry |-> "cli", mode |-> "full", dataset_id |-> DatasetId,
       sample_id |-> SampleId, cell_type |-> PyNone, prune |-> p] :
      p \in {PyNone, S_true} }
    \cup
    { [entry |-> "api", mode |-> "full", dataset_id |-> DatasetId,
       sample_id |-> SampleId, cell_type |-> c, prune |-> p] :
      c \in {S_Tumor, S_NonTumor}, p \in {PyNone, PyTrue} }
    \cup
    { [entry |-> "api", mode |-> "full", dataset_id |-> DatasetId,
       sample_id |-> <<"smp2">>, cell_type |-> PyNone, prune |-> PyNone],
      [entry |-> "api", mode |-> "full", dataset_id |-> <<"ds2">>,
       sample_id |-> SampleId, cell_type |-> PyNone, prune |-> PyFalse] }

InitPair ==
    /\ \E a \in PairArgs, b \in PairArgs :
         /\ Context(a) # Context(b)
         /\ InitRuns([x \in Runs |-> IF x = 1 THEN a ELSE b])
         /\ dirs = UsedDirs(a.dataset_id, a.sample_id)
                     \cup UsedDirs(b.dataset_id, b.sample_id)
                     \cup MakeDirs({}, Databases(BaseFolder))
    /\ meta = [i \in 1..MaxCells |-> IF i = 1 THEN "Tumor" ELSE "Other"]
    /\ dblist = <<N_TFs, Feather(1), N_Motifs>>
    /\ files = {}
    /\ h5ad = << >>

SpecPair == InitPair /\ [][Next]_vars

-----------------------------------------------------------------------------
(* Properties *)

Executed(r) == Range(execd[r])
Written(r) == {writes[r][i].path : i \in DOMAIN writes[r]}

\* a --cell_type string that is a case variant of 'Tumor' or 'Non-Tumor'
IsCaseVariant(c) == c # PyNone /\ Lower(c) \in {Lower(S_Tumor), Lower(S_NonTumor)}

\* C1: a command-line run whose --cell_type is a case variant of 'Tumor' or
\* 'Non-Tumor' (and whose --prune is acceptable) passes argument parsing and
\* the construction of the DataLoader, so it fails at neither.
C1_CaseVariantsReachFirstStage ==
    \A r \in Runs :
        ( /\ argv[r].entry = "cli"
          /\ IsCaseVariant(argv[r].cell_type)
          /\ ~PruneRaises(argv[r].prune) )
        => failed[r] \notin {"parse_arguments", "pre_loader"}

\* the cell-type values of a valid context: unset, 'Tumor' or 'Non-Tumor'
ValidCellType(c) == c \in {PyNone, S_Tumor, S_NonTumor}

\* the stages whose artifacts live in the output directory
ArtifactStages == {"export", "grn", "ctx", "aucell"}

\* p lies directly under the pruned/ or unpruned/ directory of run r and its
\* file name starts with '<cell_type>_' when a cell type is set
InPruningNamespace(r, p) ==
    /\ Len(p) > 1
    /\ Front(p) = Join(Join(Join(BaseFolder, argv[r].dataset_id), argv[r].sample_id),
                       IF self[r].pruning = PyTrue THEN <<"pruned">>
                       ELSE <<"unpruned">>)
    /\ Truthy(self[r].cell_type) =>
         /\ Len(Last(p)) > Len(self[r].cell_type)
         /\ SubSeq(Last(p), 1, Len(self[r].cell_type) + 1)
              = self[r].cell_type \o <<"_">>

\* C2: in a run with a pruning value set, every artifact path the export, GRN,
\* context-inference and scoring stages write, read or name as a command's
\* output lies under <dataset>/<sample>/pruned/ or .../unpruned/ according to
\* the pruning value, with the cell-type prefix when a cell type is set.
C2_ArtifactsInPruningDirectory ==
    \A r \in Runs :
        (self[r].pruning \in {PyTrue, PyFalse} /\ ValidCellType(self[r].cell_type)) =>
            /\ \A i \in DOMAIN writes[r] :
                 writes[r][i].stage \in ArtifactStages
                   => InPruningNamespace(r, writes[r][i].path)
            /\ \A i \in DOMAIN reads[r] :
                 reads[r][i].stage \in ArtifactStages
                   => InPruningNamespace(r, reads[r][i].path)
            /\ \A e \in Executed(r) : InPruningNamespace(r, CmdOutput(e.command))

\* C3: after get_analysis_paths has returned, every directory-valued entry of
\* the path set it returned exists.
C3_ResolvedDirectoriesExist ==
    \A r \in Runs : \A i \in DOMAIN calls[r] :
        ValidCellType(calls[r][i].cell_type)
          => DirValued(calls[r][i].result) \subseteq dirs

\* the matrix the subsetting step of run r started from
FullObs(r) == h5ad[paths[r].anndata].obs

Count(obs, v) == Cardinality({i \in DOMAIN obs : obs[i] = v})

\* C5: for the matrix a run has just subsetted, the rows selected for 'Tumor'
\* and for 'Non-Tumor' are disjoint and together are all rows, whatever the
\* annotation values; the run kept exactly the rows of its cell type, and all
\* rows, unchanged, when no cell type is set.
C5_SelectionsPartition ==
    \A r \in Runs :
        pc[r] = "scenic_paths" =>
            LET full == FullObs(r)
                kept == adata[r].obs
                t == SelectRows(full, S_Tumor)
                n == SelectRows(full, S_NonTumor)
            IN /\ t \cap n = {}
               /\ t \cup n = DOMAIN full
               /\ SelectRows(full, PyNone) = DOMAIN full
               /\ ~Truthy(self[r].cell_type) => kept = full
               /\ self[r].cell_type = S_Tumor =>
                    /\ \A i \in DOMAIN kept : kept[i] = "Tumor"
                    /\ Len(kept) = Count(full, "Tumor")
               /\ self[r].cell_type = S_NonTumor =>
                    /\ \A i \in DOMAIN kept : kept[i] # "Tumor"
                    /\ Len(kept) = Len(full) - Count(full, "Tumor")

C5_Witness ==
    \E r \in Runs :
        /\ pc[r] = "scenic_paths"
        /\ self[r].cell_type = S_NonTumor
        /\ "NaN" \in Range(FullObs(r))
        /\ "Tumor" \in Range(FullObs(r))
        /\ adata[r].obs = <<"NaN">>

\* C6: the context-inference command a run prepares and executes contains
\* '--no_pruning' exactly when the pruning value given to the WorkflowManager
\* is False.
C6_NoPruningFlagIffFalse ==
    \A r \in Runs :
        /\ \A e \in Executed(r) :
             e.tool = "ctx" =>
                 (Lit("--no_pruning") \in Range(e.command)
                    <=> self[r].pruning = PyFalse)
        /\ pc[r] \in {"grn_run", "grn_read", "ctx_run"} =>
             (Lit("--no_pruning") \in Range(cfg[r].ctx.command)
                <=> self[r].pruning = PyFalse)

C6_Witness ==
    \E r \in Runs : \E e \in Executed(r) :
        /\ e.tool = "ctx"
        /\ self[r].pruning = PyFalse
        /\ Lit("--no_pruning") \in Range(e.command)

\* a stage of run r has failed: the run stopped with an exception, or one of
\* its external commands exited non-zero
StageFailed(r) == failed[r] # "none" \/ \E e \in Executed(r) : e.rc # 0

\* C7: once a stage of a run has failed, the run takes no further step: it
\* enters no stage, executes no command, reads and writes nothing more.
C7_FailFast ==
    [][ \A r \in Runs :
          StageFailed(r) =>
              /\ pc'[r] = pc[r]
              /\ entered'[r] = entered[r]
              /\ execd'[r] = execd[r]
              /\ reads'[r] = reads[r]
              /\ writes'[r] = writes[r] ]_vars

C7_Witness ==
    \E r \in Runs :
        /\ failed[r] = "ctx"
        /\ \E e \in Executed(r) : e.tool = "ctx" /\ e.rc # 0
        /\ Last(entered[r]) = "ctx"
        /\ \A i \in DOMAIN reads[r] : reads[r][i].stage # "ctx"

\* C10: a command-line run whose --prune is outside {true, false, none} or
\* whose --cell_type is outside {tumor, non-tumor, none}, compared without
\* case, ends in parse_arguments: no directory is created, no stage entered and
\* no command executed.
InvalidOptions(a) ==
    \/ a.prune # PyNone /\ Lower(a.prune) \notin {S_true, S_false, S_none}
    \/ a.cell_type # PyNone /\ Lower(a.cell_type) \notin {S_tumor, S_nontumor, S_none}

C10_InvalidOptionsStopInParsing ==
    [][ \A r \in Runs :
          (argv[r].entry = "cli" /\ InvalidOptions(argv[r])) =>
              /\ pc'[r] \in {"start", "failed"}
              /\ failed'[r] \in {"none", "parse_arguments"}
              /\ pc'[r] = "failed" => failed'[r] = "parse_arguments"
              /\ dirs' = dirs
              /\ entered'[r] = <<>>
              /\ execd'[r] = <<>>
              /\ calls'[r] = <<>> ]_vars

C10_Witness ==
    \E r \in Runs :
        /\ argv[r].entry = "cli"
        /\ argv[r].prune = S_true
        /\ argv[r].cell_type = <<"x">>
        /\ failed[r] = "parse_arguments"
        /\ entered[r] = <<>>

\* C8 as stated: every external command is executed in a state where each of
\* the input files it names exists.
C8_AllInputsPresentAtExecution ==
    \A r \in Runs : \A e \in Executed(r) : e.missing = {}

\* the inputs of a command that are artifacts of the run, not static
\* reference files of the databases directory
GeneratedInputs(cmd) ==
    {p \in CmdInputs(cmd) : Front(p) # Databases(BaseFolder)}

\* C8, amended: every external command is executed in a state where each
\* generated artifact it names as input exists (grn: the filtered loom; ctx:
\* the adjacencies and the loom; aucell: the loom and the regulons); only the
\* static reference inputs of the databases directory can be missing.
C8_GeneratedInputsPresentAtExecution ==
    \A r \in Runs : \A e \in Executed(r) :
        /\ GeneratedInputs(e.command) \cap e.missing = {}
        /\ e.tool = "grn" => Cardinality(GeneratedInputs(e.command)) = 1
        /\ e.tool \in {"ctx", "aucell"} => Cardinality(GeneratedInputs(e.command)) = 2

C8_Witness ==
    \E r \in Runs : \E e \in Executed(r) :
        /\ e.tool = "aucell"
        /\ e.rc = 0
        /\ \E d \in Executed(r) : d.tool = "grn" /\ d.missing # {}

SameCall(c, d) == c.cell_type = d.cell_type /\ c.pruning = d.pruning

\* C4 as stated: two get_analysis_paths calls of a run with equal arguments
\* return identical path sets, whatever happened to the filesystem in between.
C4_EqualContextsEqualPaths ==
    \A r \in Runs : \A i, j \in DOMAIN calls[r] :
        SameCall(calls[r][i], calls[r][j])
          => calls[r][i].result = calls[r][j].result

\* C4, amended: two calls with equal arguments return identical paths for
\* every key other than 'ranking_dbs'; 'ranking_dbs' is the *.feather content
\* of the databases directory at the time of the call, so it is identical when
\* the directory listing is the same at both calls.
C4_EqualContextsEqualPathsButRankingDbs ==
    \A r \in Runs : \A i, j \in DOMAIN calls[r] :
        SameCall(calls[r][i], calls[r][j]) =>
            /\ [calls[r][i].result EXCEPT !.ranking_dbs = <<>>]
                 = [calls[r][j].result EXCEPT !.ranking_dbs = <<>>]
            /\ calls[r][i].listing = calls[r][j].listing
                 => calls[r][i].result.ranking_dbs = calls[r][j].result.ranking_dbs

C4_Witness ==
    \E r \in Runs : \E i, j \in DOMAIN calls[r] :
        /\ i < j
        /\ SameCall(calls[r][i], calls[r][j])
        /\ calls[r][i].listing # calls[r][j].listing
        /\ calls[r][i].result.ranking_dbs # calls[r][j].result.ranking_dbs
        /\ calls[r][i].result.anndata = calls[r][j].result.anndata

\* C9: two runs over one base folder whose contexts differ in dataset, sample,
\* cell type or pruning never write the same file path.
C9_DistinctContextsDistinctFiles ==
    \A r1, r2 \in Runs :
        ( /\ r1 # r2
          /\ argv[r1].entry # "off" /\ argv[r2].entry # "off"
          /\ Context(argv[r1]) # Context(argv[r2]) )
        => Written(r1) \cap Written(r2) = {}

\* the place of a step in the canonical stage order: filter/normalize 1,
\* annotate 2, cluster+embed 3, export 4, GRN inference 5, context inference 6,
\* scoring 7, visualize/report 8; 0 for the steps that are no stage of it
CanonicalRank(stage) ==
    CASE stage \in {"filter", "normalize"} -> 1
      [] stage = "annotate" -> 2
      [] stage = "cluster" -> 3
      [] stage = "export" -> 4
      [] stage = "grn" -> 5
      [] stage = "ctx" -> 6
      [] stage = "aucell" -> 7
      [] stage \in {"gene_distribution", "dimred", "visualize"} -> 8
      [] OTHER -> 0

\* C11 as stated: the stages of a full run are entered in the canonical order,
\* so no normalization step follows the annotation and no visualization step
\* precedes the scoring.
C11_CanonicalStageOrder ==
    \A r \in Runs :
        argv[r].mode = "full" =>
            \A i, j \in DOMAIN entered[r] :
                ( /\ i < j
                  /\ CanonicalRank(entered[r][i]) > 0
                  /\ CanonicalRank(entered[r][j]) > 0 )
                => CanonicalRank(entered[r][i]) <= CanonicalRank(entered[r][j])

\* the steps of main in the order of the code
CodeOrder ==
    << "pre_loader", "read_expression", "filter", "annotate", "normalize",
       "cluster", "scenic_loader", "read_h5ad", "subset", "update_paths",
       "export", "grn", "ctx", "gene_distribution", "aucell", "dimred",
       "visualize" >>

\* C11, amended: the steps of a full run are entered strictly in the order
\* filter, annotate, normalize, cluster+embed, export, GRN inference, context
\* inference, gene-distribution plot, scoring, dimensionality reduction,
\* regulon heatmap, each only after the previous one has succeeded; the
\* normalization follows the annotation and the gene-distribution plot
\* precedes the scoring, while the dimensionality reduction and the heatmap
\* begin only after the scoring command has exited 0 and its output was read.
C11_CodeStageOrder ==
    \A r \in Runs :
        argv[r].mode = "full" =>
            /\ Len(entered[r]) <= Len(CodeOrder)
            /\ entered[r] = SubSeq(CodeOrder, 1, Len(entered[r]))
            /\ failed[r] \notin {"none", "parse_arguments"}
                 => Last(entered[r]) = failed[r]
            /\ \A i \in DOMAIN entered[r] :
                 entered[r][i] \in {"dimred", "visualize"} =>
                     /\ \E e \in Executed(r) : e.tool = "aucell" /\ e.rc = 0
                     /\ \E k \in DOMAIN reads[r] : reads[r][k].stage = "aucell"

C11_Witness ==
    \E r \in Runs :
        /\ argv[r].mode = "full"
        /\ pc[r] = "done"
        /\ entered[r] = CodeOrder

\* run r has loaded a persisted matrix without the annotation column and has
\* come to the subsetting block with a cell type set
SubsetWithoutColumn(r) ==
    /\ Truthy(self[r].cell_type)
    /\ "subset" \in Range(entered[r])
    /\ ~adata[r].hascol

\* C12: when a cell type is set and the persisted matrix has no harmonized
\* annotation column, the subsetting raises and the run ends there: no loom
\* file is exported and no external command is executed.
C12_MissingAnnotationAborts ==
    \A r \in Runs :
        SubsetWithoutColumn(r) =>
            /\ pc[r] = "failed"
            /\ failed[r] = "subset"
            /\ Last(entered[r]) = "subset"
            /\ \A i \in DOMAIN writes[r] : writes[r][i].stage # "export"
            /\ execd[r] = <<>>

C12_Witness ==
    \E r \in Runs :
        /\ SubsetWithoutColumn(r)
        /\ self[r].cell_type = S_Tumor
        /\ \E i \in DOMAIN reads[r] : reads[r][i].stage = "read_h5ad"
        /\ failed[r] = "subset"

\* the position at which the orchestrator reads the output of a tool
ReadPosition(tool) ==
    CASE tool = "grn" -> "grn_read"
      [] tool = "ctx" -> "ctx_read"
      [] tool = "aucell" -> "aucell_read"

\* the i-th command of run r exited 0 and the output file it names is absent
SilentlyEmpty(r, i) ==
    /\ execd[r][i].rc = 0
    /\ CmdOutput(execd[r][i].command) \notin files

\* C13: when an external command has exited 0 and its declared output does not
\* exist, the run goes no further than the read of that output, which raises:
\* the run ends at that stage, the command stays the last one executed and its
\* stage the last one entered.
C13_MissingOutputAborts ==
    \A r \in Runs : \A i \in DOMAIN execd[r] :
        SilentlyEmpty(r, i) =>
            LET tool == execd[r][i].tool
            IN /\ i = Len(execd[r])
               /\ Last(entered[r]) = tool
               /\ pc[r] \in {ReadPosition(tool), "failed"}
               /\ pc[r] = "failed" => failed[r] = tool
               /\ pc[r] = ReadPosition(tool) => failed[r] = "none"
               /\ \A k \in DOMAIN reads[r] : reads[r][k].stage # tool

C13_Witness ==
    \E r \in Runs :
        /\ Len(execd[r]) = 2
        /\ SilentlyEmpty(r, 2)
        /\ ~SilentlyEmpty(r, 1)
        /\ execd[r][2].tool = "ctx"
        /\ failed[r] = "ctx"

\* run r has reached the subsetting block with a cell type set
SubsetsWithCellType(r) ==
    "subset" \in Range(entered[r]) /\ Truthy(self[r].cell_type)

\* the annotation rows of the matrix run r loaded at the start of
\* run_pyscenic_workflow
LoadedObs(r) ==
    LET k == CHOOSE k \in DOMAIN reads[r] : reads[r][k].stage = "read_h5ad"
    IN h5ad[reads[r][k].path].obs

\* run r has written its expression export
Exported(r) == \E k \in DOMAIN writes[r] : writes[r][k].stage = "export"

\* C14: a run that reaches the subsetting block with a cell type set has
\* 'Tumor' or 'Non-Tumor' as that cell type (anything else has raised in the
\* DataLoader construction), and the matrix it exports under a prefixed file
\* name holds exactly the rows of the matching mask.
C14_OnlyValidCellTypesSubset ==
    \A r \in Runs :
        SubsetsWithCellType(r) =>
            /\ self[r].cell_type \in {S_Tumor, S_NonTumor}
            /\ Exported(r) =>
                   adata[r].obs =
                       Take(LoadedObs(r),
                            IF self[r].cell_type = S_Tumor
                            THEN TumorMask(LoadedObs(r))
                            ELSE NonTumorMask(LoadedObs(r)))

C14_Witness ==
    \E r \in Runs :
        /\ SubsetsWithCellType(r)
        /\ Exported(r)
        /\ self[r].cell_type = S_NonTumor
        /\ Len(adata[r].obs) < Len(LoadedObs(r))
        /\ paths[r].filtered_loom \in files
        /\ Last(paths[r].filtered_loom) = S_NonTumor \o <<"_", "filtered_scenic.loom">>

\* the anndata path run r is about to open: at the start of
\* run_pyscenic_workflow, and in create_regulon_heatmap (no cell type)
AnndataAboutToBeRead(r) ==
    IF \/ pc[r] = "scenic_read"
       \/ pc[r] = "visualize" /\ ~Truthy(self[r].cell_type)
    THEN {paths[r].anndata}
    ELSE {}

\* C15: in a full run (preprocessing_workflow, then run_pyscenic_workflow)
\* every generated artifact a stage has read, and the anndata file a stage is
\* about to open, is at a path an earlier stage of the same run wrote.
C15_ReadsOnlyOwnArtifacts ==
    \A r \in Runs :
        ( /\ argv[r].entry # "off" /\ argv[r].mode = "full"
          /\ ValidCellType(self[r].cell_type) ) =>
            /\ \A k \in DOMAIN reads[r] : reads[r][k].own
            /\ AnndataAboutToBeRead(r) \subseteq Written(r)

\* the path create_loom_file of run r wrote
ExportPath(r) ==
    LET k == CHOOSE k \in DOMAIN writes[r] : writes[r][k].stage = "export"
    IN writes[r][k].path

\* the command run r executed for a tool
CommandOf(r, tool) ==
    LET i == CHOOSE i \in DOMAIN execd[r] : execd[r][i].tool = tool
    IN execd[r][i].command

\* the word that follows a flag in a command
ArgOf(cmd, flag) ==
    cmd[(CHOOSE i \in DOMAIN cmd : cmd[i] = Lit(flag)) + 1]

Tools == {"grn", "ctx", "aucell"}

\* C16: the commands a run has executed form one chain: the file
\* create_loom_file wrote is the expression input of grn, ctx and aucell, the
\* output named in the grn command is the adjacency input of ctx, the output
\* named in the ctx command is the regulon input of aucell, and what the
\* orchestrator has read after a command is the output named in that command
\* (and it has read it before it enters any later stage).
C16_CommandsFormOneChain ==
    \A r \in Runs :
        /\ \A i \in DOMAIN execd[r] :
             LET tool == execd[r][i].tool
                 c == execd[r][i].command
             IN /\ Exported(r)
                /\ tool = "grn" => c[3] = P(ExportPath(r))
                /\ tool = "ctx" =>
                     /\ c[3] = P(CmdOutput(CommandOf(r, "grn")))
                     /\ ArgOf(c, "--expression_mtx_fname") = P(ExportPath(r))
                /\ tool = "aucell" =>
                     /\ c[3] = P(ExportPath(r))
                     /\ c[4] = P(CmdOutput(CommandOf(r, "ctx")))
                /\ Last(entered[r]) # tool =>
                     \E k \in DOMAIN reads[r] : reads[r][k].stage = tool
        /\ \A k \in DOMAIN reads[r] :
             reads[r][k].stage \in Tools =>
                 /\ reads[r][k].stage \in {execd[r][i].tool : i \in DOMAIN execd[r]}
                 /\ reads[r][k].path = CmdOutput(CommandOf(r, reads[r][k].stage))

C16_Witness ==
    \E r \in Runs :
        /\ {execd[r][i].tool : i \in DOMAIN execd[r]} = Tools
        /\ {reads[r][k].stage : k \in DOMAIN reads[r]} \cap Tools = Tools
        /\ self[r].cell_type = S_Tumor
        /\ self[r].pruning = PyFalse
        /\ pc[r] = "done"

====
